---- MODULE Spec2Model ----
(***************************************************************************)
(* scripts/codegen/gen_server_ciphers.py: scan header files for            *)
(* ciphersuite names, keep the usable ones, decompose them into fields,    *)
(* sort them by preference and print a C-preprocessor listing.             *)
(*                                                                         *)
(* Python strings are modelled as sequences of one-character strings, so   *)
(* that "in", re.match, re.search and string formatting are computed       *)
(* character by character.                                                 *)
(***************************************************************************)
EXTENDS Integers, Sequences, FiniteSets, TLC

VARIABLES
    argv,         \* sys.argv[1:]: the contents of the files named, in order
    fi,           \* index in argv of the file being read
    li,           \* number of lines of that file already read
    ALL_CIPHERS,  \* the list of Ciphersuite objects
    stdout,       \* lines printed so far
    ei,           \* number of elements of ALL_CIPHERS the emitter loop has visited
    pc            \* "collect", "sort", "emit", "terminator", "done", "raised"

vars == <<argv, fi, li, ALL_CIPHERS, stdout, ei, pc>>

(***************************************************************************)
(* Strings                                                                 *)
(***************************************************************************)

\* s[pos..] starts with a
StartsAt(s, pos, a) ==
    /\ pos + Len(a) - 1 <= Len(s)
    /\ \A k \in 1..Len(a) : s[pos + k - 1] = a[k]

\* Python: sub in s
In(sub, s) == \E i \in 1..(Len(s) - Len(sub) + 1) : StartsAt(s, i, sub)

\* Python: x in list
InList(x, list) == \E i \in 1..Len(list) : list[i] = x

\* Python: list.index(x), 0-based, first occurrence
index(list, x) ==
    (CHOOSE i \in 1..Len(list) : list[i] = x /\ \A j \in 1..(i - 1) : list[j] # x) - 1

\* the characters \w matches in ASCII text
WordChars ==
    { "A","B","C","D","E","F","G","H","I","J","K","L","M",
      "N","O","P","Q","R","S","T","U","V","W","X","Y","Z",
      "a","b","c","d","e","f","g","h","i","j","k","l","m",
      "n","o","p","q","r","s","t","u","v","w","x","y","z",
      "0","1","2","3","4","5","6","7","8","9","_" }

(***************************************************************************)
(* The fragment of Python's re the script uses: a pattern is a sequence of *)
(* groups, each an ordered list of literal alternatives, capturing or not; *)
(* alternatives are tried in order with backtracking; "$" matches at the   *)
(* end of the string or just before a final newline.                       *)
(***************************************************************************)

NoMatch == [ok |-> FALSE, end |-> 0, groups |-> <<>>]

AtEnd(s, pos) == pos = Len(s) + 1 \/ (pos = Len(s) /\ s[pos] = "\n")

RECURSIVE MatchSeq(_, _, _, _)
RECURSIVE MatchAlts(_, _, _, _, _)

MatchSeq(s, pos, pat, dollar) ==
    IF pat = <<>>
    THEN IF dollar => AtEnd(s, pos)
         THEN [ok |-> TRUE, end |-> pos, groups |-> <<>>]
         ELSE NoMatch
    ELSE MatchAlts(s, pos, pat, dollar, 1)

MatchAlts(s, pos, pat, dollar, ai) ==
    LET g == Head(pat) IN
    IF ai > Len(g.alts) THEN NoMatch
    ELSE LET a == g.alts[ai]
             rest == IF StartsAt(s, pos, a)
                     THEN MatchSeq(s, pos + Len(a), Tail(pat), dollar)
                     ELSE NoMatch
         IN  IF rest.ok
             THEN [ok |-> TRUE, end |-> rest.end,
                   groups |-> IF g.cap THEN <<a>> \o rest.groups ELSE rest.groups]
             ELSE MatchAlts(s, pos, pat, dollar, ai + 1)

\* re.match(pat, s): anchored at the start of s
re_match(pat, dollar, s) == MatchSeq(s, 1, pat, dollar)

Lit(a) == [alts |-> <<a>>, cap |-> FALSE]
Alt(as) == [alts |-> as, cap |-> FALSE]
Cap(as) == [alts |-> as, cap |-> TRUE]

(***************************************************************************)
(* Module constants                                                        *)
(***************************************************************************)

EPHEMERAL_INDICATORS == << <<"_","E","D","H","_">>, <<"_","D","H","E","_">>, <<"_","E","C","D","H","E","_">> >>

\* BAD_STUFF without "_RC4_"
BAD_STUFF_no_rc4 ==
    << <<"_","D","E","S","_","4","0","_">>, <<"M","D","5">>, <<"_","D","E","S","_","6","4","_">>,
       <<"_","S","E","E","D","_">>, <<"_","C","A","M","E","L","L","I","A","_">>, <<"_","N","U","L","L">>,
       <<"_","C","C","M","_","8">>, <<"_","D","E","S","_">> >>

\* BAD_STUFF without "_DES_"
BAD_STUFF_no_des ==
    << <<"_","D","E","S","_","4","0","_">>, <<"M","D","5">>, <<"_","R","C","4","_">>, <<"_","D","E","S","_","6","4","_">>,
       <<"_","S","E","E","D","_">>, <<"_","C","A","M","E","L","L","I","A","_">>, <<"_","N","U","L","L">>,
       <<"_","C","C","M","_","8">> >>

BAD_STUFF ==
    << <<"_","D","E","S","_","4","0","_">>, <<"M","D","5">>, <<"_","R","C","4","_">>, <<"_","D","E","S","_","6","4","_">>,
       <<"_","S","E","E","D","_">>, <<"_","C","A","M","E","L","L","I","A","_">>, <<"_","N","U","L","L">>,
       <<"_","C","C","M","_","8">>, <<"_","D","E","S","_">> >>

\* MANDATORY without its second name
MANDATORY_first_only == << <<"T","L","S","1","_","T","X","T","_","D","H","E","_","R","S","A","_","W","I","T","H","_","A","E","S","_","2","5","6","_","S","H","A">> >>

\* "TLS1_TXT_DHE_RSA_WITH_AES_256_SHA", "TLS1_TXT_DHE_RSA_WITH_AES_128_SHA"
MANDATORY ==
    << <<"T","L","S","1","_","T","X","T","_","D","H","E","_","R","S","A","_","W","I","T","H","_","A","E","S","_","2","5","6","_","S","H","A">>,
       <<"T","L","S","1","_","T","X","T","_","D","H","E","_","R","S","A","_","W","I","T","H","_","A","E","S","_","1","2","8","_","S","H","A">> >>

\* FIELDS with the first two fields exchanged
FIELDS_fwsec_first == << "fwsec", "cipher", "mode", "digest", "bitlength" >>

\* All fields we sort on, in order of priority.
FIELDS == << "cipher", "fwsec", "mode", "digest", "bitlength" >>

\* Map from sorted fields to recognized value in descending order of goodness
FIELD_VALS ==
    [ cipher    |-> << <<"A","E","S">>, <<"C","H","A","C","H","A","2","0">> >>,
      fwsec     |-> << <<"E","C","D","H","E">>, <<"D","H","E">> >>,
      mode      |-> << <<"P","O","L","Y","1","3","0","5">>, <<"G","C","M">>, <<"C","C","M">>, <<"C","B","C">> >>,
      digest    |-> << <<"n","/","a">>, <<"S","H","A","3","8","4">>, <<"S","H","A","2","5","6">>, <<"S","H","A">> >>,
      bitlength |-> << <<"2","5","6">>, <<"1","2","8">>, <<"1","9","2">> >> ]

indent == <<" "," "," "," "," "," "," ">>

(***************************************************************************)
(* find_ciphers: re.search(r'(?:SSL3|TLS1)_TXT_\w+', line), group(0)       *)
(***************************************************************************)

TxtPrefix == << Alt(<< <<"S","S","L","3">>, <<"T","L","S","1">> >>), Lit(<<"_","T","X","T","_">>) >>

\* the end (exclusive) of the longest run of \w starting at pos
RECURSIVE WordRun(_, _)
WordRun(s, pos) ==
    IF pos <= Len(s) /\ s[pos] \in WordChars THEN WordRun(s, pos + 1) ELSE pos

\* the match of the pattern at start position i, or NoMatch
SearchAt(line, i) ==
    LET m == MatchSeq(line, i, TxtPrefix, FALSE)
        e == WordRun(line, m.end)
    IN  IF m.ok /\ e > m.end
        THEN [ok |-> TRUE, start |-> i, end |-> e, groups |-> <<>>]
        ELSE NoMatch

\* re.search: the match at the leftmost start position that has one
RECURSIVE re_search(_, _)
re_search(line, i) ==
    IF i > Len(line) THEN NoMatch
    ELSE LET m == SearchAt(line, i) IN
         IF m.ok THEN m ELSE re_search(line, i + 1)

\* the candidate of a line: <<m.group(0)>>, or <<>> when the line has no match
find_ciphers(line) ==
    LET m == re_search(line, 1) IN
    IF m.ok THEN << SubSeq(line, m.start, m.end - 1) >> ELSE <<>>

(***************************************************************************)
(* usable_cipher                                                           *)
(***************************************************************************)

usable_cipher(ciph) ==
    LET ephemeral == \E i \in 1..Len(EPHEMERAL_INDICATORS) :
                        In(EPHEMERAL_INDICATORS[i], ciph)
    IN  IF ~ephemeral THEN FALSE
        ELSE IF ~In(<<"_","R","S","A","_">>, ciph) THEN FALSE
        ELSE \A i \in 1..Len(BAD_STUFF) : ~In(BAD_STUFF[i], ciph)

(***************************************************************************)
(* class Ciphersuite                                                       *)
(***************************************************************************)

AssertionError == [kind |-> "AssertionError"]

\* Ciphersuite.__init__ taking every GCM suite for one without a digest
Ciphersuite_gcm_no_digest(name, fwsec, cipher, bitlength, mode, digest) ==
    LET fwsec1 == IF fwsec = <<"E","D","H">> THEN <<"D","H","E">> ELSE fwsec
        mode1  == IF InList(mode, << <<"_","C","B","C","3">>, <<"_","C","B","C">>, <<>> >>) THEN <<"C","B","C">>
                  ELSE IF mode = <<"_","G","C","M">> THEN <<"G","C","M">>
                  ELSE mode
        self   == [ kind |-> "Ciphersuite", name |-> name, fwsec |-> fwsec1,
                    cipher |-> cipher, bitlength |-> bitlength,
                    mode |-> mode1,
                    digest |-> IF mode1 = <<"G","C","M">> THEN <<"n","/","a">> ELSE digest ]
    IN  IF \A i \in 1..Len(FIELDS) : InList(self[FIELDS[i]], FIELD_VALS[FIELDS[i]])
        THEN self
        ELSE AssertionError

\* Ciphersuite.__init__ without '_CBC3' among the spellings of CBC
Ciphersuite_no_cbc3(name, fwsec, cipher, bitlength, mode, digest) ==
    LET fwsec1 == IF fwsec = <<"E","D","H">> THEN <<"D","H","E">> ELSE fwsec
        mode1  == IF InList(mode, << <<"_","C","B","C">>, <<>> >>) THEN <<"C","B","C">>
                  ELSE IF mode = <<"_","G","C","M">> THEN <<"G","C","M">>
                  ELSE mode
        self   == [ kind |-> "Ciphersuite", name |-> name, fwsec |-> fwsec1,
                    cipher |-> cipher, bitlength |-> bitlength,
                    mode |-> mode1, digest |-> digest ]
    IN  IF \A i \in 1..Len(FIELDS) : InList(self[FIELDS[i]], FIELD_VALS[FIELDS[i]])
        THEN self
        ELSE AssertionError

\* Ciphersuite.__init__: the object built, or the AssertionError raised
Ciphersuite(name, fwsec, cipher, bitlength, mode, digest) ==
    LET fwsec1 == IF fwsec = <<"E","D","H">> THEN <<"D","H","E">> ELSE fwsec
        mode1  == IF InList(mode, << <<"_","C","B","C","3">>, <<"_","C","B","C">>, <<>> >>) THEN <<"C","B","C">>
                  ELSE IF mode = <<"_","G","C","M">> THEN <<"G","C","M">>
                  ELSE mode
        self   == [ kind |-> "Ciphersuite", name |-> name, fwsec |-> fwsec1,
                    cipher |-> cipher, bitlength |-> bitlength,
                    mode |-> mode1, digest |-> digest ]
    IN  IF \A i \in 1..Len(FIELDS) : InList(self[FIELDS[i]], FIELD_VALS[FIELDS[i]])
        THEN self
        ELSE AssertionError

\* Ciphersuite.sort_key: a tuple, compared lexicographically
sort_key(self) ==
    [ i \in 1..Len(FIELDS) |-> index(FIELD_VALS[FIELDS[i]], self[FIELDS[i]]) ]

(***************************************************************************)
(* parse_cipher                                                            *)
(***************************************************************************)

KxAuth ==
    << Alt(<< <<"T","L","S","1">>, <<"S","S","L","3">> >>), Lit(<<"_","T","X","T","_">>),
       Cap(<< <<"E","D","H">>, <<"D","H","E">>, <<"E","C","D","H","E">> >>), Lit(<<"_","R","S","A">>),
       Alt(<< <<"_","W","I","T","H">>, <<>> >>), Lit(<<"_">>) >>

CipherBits ==
    << Cap(<< <<"A","E","S">>, <<"D","E","S">> >>), Lit(<<"_">>),
       Cap(<< <<"2","5","6">>, <<"1","2","8">>, <<"1","9","2">> >>) >>

\* ..._(AES|DES)_(256|128|192)(|_CBC|_CBC3|_GCM)_(SHA|SHA256|SHA384)$
Shape1 ==
    KxAuth \o CipherBits \o
    << Cap(<< <<>>, <<"_","C","B","C">>, <<"_","C","B","C","3">>, <<"_","G","C","M">> >>), Lit(<<"_">>),
       Cap(<< <<"S","H","A">>, <<"S","H","A","2","5","6">>, <<"S","H","A","3","8","4">> >>) >>

\* ..._(AES|DES)_(256|128|192)_CCM
Shape2 == KxAuth \o CipherBits \o << Lit(<<"_","C","C","M">>) >>

\* ..._CHACHA20_POLY1305
Shape3 == KxAuth \o << Lit(<<"C","H","A","C","H","A","2","0","_","P","O","L","Y","1","3","0","5">>) >>

\* the diagnostic parse_cipher prints for a name it cannot parse
CouldntParse(ciph) == <<"/","*"," ","C","o","u","l","d","n","'","t"," ","p","a","r","s","e"," ">> \o ciph \o <<" ","!"," ","*","/">>

None == [kind |-> "None"]

\* parse_cipher printing nothing for a name it cannot parse
parse_cipher_silent(ciph) ==
    LET m1 == re_match(Shape1, TRUE, ciph)
        m2 == re_match(Shape2, FALSE, ciph)
        m3 == re_match(Shape3, FALSE, ciph)
    IN  IF m1.ok
        THEN [ret |-> Ciphersuite(ciph, m1.groups[1], m1.groups[2], m1.groups[3],
                                  m1.groups[4], m1.groups[5]),
              out |-> <<>>]
        ELSE IF m2.ok
        THEN [ret |-> Ciphersuite(ciph, m2.groups[1], m2.groups[2], m2.groups[3],
                                  <<"C","C","M">>, <<"n","/","a">>),
              out |-> <<>>]
        ELSE IF m3.ok
        THEN [ret |-> Ciphersuite(ciph, m3.groups[1], <<"C","H","A","C","H","A","2","0">>, <<"2","5","6">>,
                                  <<"P","O","L","Y","1","3","0","5">>, <<"n","/","a">>),
              out |-> <<>>]
        ELSE [ret |-> None, out |-> <<>>]

\* [ret |-> the object, None or the AssertionError raised, out |-> lines printed]
parse_cipher(ciph) ==
    LET m1 == re_match(Shape1, TRUE, ciph)
        m2 == re_match(Shape2, FALSE, ciph)
        m3 == re_match(Shape3, FALSE, ciph)
    IN  IF m1.ok
        THEN [ret |-> Ciphersuite(ciph, m1.groups[1], m1.groups[2], m1.groups[3],
                                  m1.groups[4], m1.groups[5]),
              out |-> <<>>]
        ELSE IF m2.ok
        THEN [ret |-> Ciphersuite(ciph, m2.groups[1], m2.groups[2], m2.groups[3],
                                  <<"C","C","M">>, <<"n","/","a">>),
              out |-> <<>>]
        ELSE IF m3.ok
        THEN [ret |-> Ciphersuite(ciph, m3.groups[1], <<"C","H","A","C","H","A","2","0">>, <<"2","5","6">>,
                                  <<"P","O","L","Y","1","3","0","5">>, <<"n","/","a">>),
              out |-> <<>>]
        ELSE [ret |-> None, out |-> << CouldntParse(ciph) >>]

(***************************************************************************)
(* list.sort(key=Ciphersuite.sort_key): a stable sort by tuple comparison  *)
(***************************************************************************)

\* Python tuple comparison a < b for tuples of equal length
RECURSIVE TupleLess(_, _)
TupleLess(a, b) ==
    IF a = <<>> THEN FALSE
    ELSE IF Head(a) # Head(b) THEN Head(a) < Head(b)
    ELSE TupleLess(Tail(a), Tail(b))

\* Insert putting x before the elements with an equal key: not stable
RECURSIVE Insert_before_equal(_, _)
Insert_before_equal(list, x) ==
    IF list = <<>> THEN <<x>>
    ELSE IF ~TupleLess(sort_key(Head(list)), sort_key(x))
         THEN <<x>> \o list
         ELSE <<Head(list)>> \o Insert_before_equal(Tail(list), x)

\* x put into the sorted list after every element whose key is not greater
RECURSIVE Insert(_, _)
Insert(list, x) ==
    IF list = <<>> THEN <<x>>
    ELSE IF TupleLess(sort_key(x), sort_key(Head(list)))
         THEN <<x>> \o list
         ELSE <<Head(list)>> \o Insert(Tail(list), x)

RECURSIVE InsertAll(_, _)
InsertAll(done, rest) ==
    IF rest = <<>> THEN done
    ELSE InsertAll(Insert(done, Head(rest)), Tail(rest))

\* the list without the later objects of a name already in it
RECURSIVE Unique(_, _)
Unique(seen, rest) ==
    IF rest = <<>> THEN seen
    ELSE IF \E i \in 1..Len(seen) : seen[i].name = Head(rest).name
         THEN Unique(seen, Tail(rest))
         ELSE Unique(Append(seen, Head(rest)), Tail(rest))

\* sort dropping repeated names
sort_unique(list) == InsertAll(<<>>, Unique(<<>>, list))

sort(list) == InsertAll(<<>>, list)

(***************************************************************************)
(* Input files                                                             *)
(***************************************************************************)

\* a header line defining the name
Define(name) == <<"#"," ","d","e","f","i","n","e"," ">> \o name \o <<" ","\"","x","\"","\n">>

\* tls1.h: the two mandatory suites and nothing else
HeaderMandatory ==
    << Define(<<"T","L","S","1","_","T","X","T","_","D","H","E","_","R","S","A","_","W","I","T","H","_","A","E","S","_","2","5","6","_","S","H","A">>),
       Define(<<"T","L","S","1","_","T","X","T","_","D","H","E","_","R","S","A","_","W","I","T","H","_","A","E","S","_","1","2","8","_","S","H","A">>) >>

HeaderModern ==
    << Define(<<"T","L","S","1","_","T","X","T","_","E","C","D","H","E","_","R","S","A","_","W","I","T","H","_","C","H","A","C","H","A","2","0","_","P","O","L","Y","1","3","0","5">>),
       Define(<<"T","L","S","1","_","T","X","T","_","E","C","D","H","E","_","R","S","A","_","W","I","T","H","_","A","E","S","_","1","2","8","_","G","C","M","_","S","H","A","2","5","6">>) >>

\* a comment, a legacy spelling with the sort key of a mandatory suite, a weak suite
HeaderLegacy ==
    << <<"/","*"," ","c","i","p","h","e","r","s","u","i","t","e","s"," ","*","/","\n">>,
       Define(<<"S","S","L","3","_","T","X","T","_","E","D","H","_","R","S","A","_","A","E","S","_","1","2","8","_","C","B","C","_","S","H","A">>),
       Define(<<"T","L","S","1","_","T","X","T","_","E","C","D","H","E","_","R","S","A","_","W","I","T","H","_","R","C","4","_","1","2","8","_","S","H","A">>) >>

\* a usable name of no known shape between two good ones
HeaderUnknown ==
    << Define(<<"T","L","S","1","_","T","X","T","_","D","H","E","_","R","S","A","_","W","I","T","H","_","A","E","S","_","1","2","8","_","C","C","M">>),
       Define(<<"T","L","S","1","_","T","X","T","_","D","H","E","_","R","S","A","_","W","I","T","H","_","A","R","I","A","_","1","2","8","_","G","C","M","_","S","H","A","2","5","6">>),
       Define(<<"T","L","S","1","_","T","X","T","_","D","H","E","_","R","S","A","_","W","I","T","H","_","A","E","S","_","2","5","6","_","G","C","M","_","S","H","A","3","8","4">>) >>

\* no forward secrecy, single DES, and a line whose second name alone is usable
HeaderWeak ==
    << Define(<<"T","L","S","1","_","T","X","T","_","R","S","A","_","W","I","T","H","_","A","E","S","_","2","5","6","_","S","H","A">>),
       Define(<<"S","S","L","3","_","T","X","T","_","E","D","H","_","R","S","A","_","D","E","S","_","1","9","2","_","C","B","C","3","_","S","H","A">>),
       <<"T","L","S","1","_","T","X","T","_","R","S","A","_","W","I","T","H","_","A","E","S","_","1","2","8","_","S","H","A"," ","T","L","S","1","_","T","X","T","_","D","H","E","_","R","S","A","_","W","I","T","H","_","A","E","S","_","2","5","6","_","S","H","A","\n">> >>

HeaderOne == << Define(<<"T","L","S","1","_","T","X","T","_","D","H","E","_","R","S","A","_","W","I","T","H","_","A","E","S","_","1","2","8","_","S","H","A">>) >>

HEADERS ==
    { HeaderMandatory, HeaderModern, HeaderLegacy, HeaderUnknown,
      HeaderWeak, HeaderOne }

MaxFiles == 3

SeqsUpTo(S, n) == UNION { [1..k -> S] : k \in 0..n }

(***************************************************************************)
(* The script                                                              *)
(***************************************************************************)

Init ==
    /\ argv \in SeqsUpTo(HEADERS, MaxFiles)
    /\ fi = 1
    /\ li = 0
    /\ ALL_CIPHERS = <<>>
    /\ stdout = <<>>
    /\ ei = 0
    /\ pc = "collect"

\* one iteration of "for line in f" and, for a candidate, of the main loop's body
CollectLine ==
    /\ pc = "collect"
    /\ fi <= Len(argv)
    /\ li < Len(argv[fi])
    /\ li' = li + 1
    /\ LET found == find_ciphers(argv[fi][li + 1]) IN
       IF found = <<>> \/ ~usable_cipher(found[1])
       THEN UNCHANGED <<ALL_CIPHERS, stdout, pc>>
       ELSE LET parsed == parse_cipher(found[1]) IN
            /\ stdout' = stdout \o parsed.out
            /\ IF parsed.ret = AssertionError
               THEN /\ pc' = "raised"
                    /\ UNCHANGED ALL_CIPHERS
               ELSE /\ pc' = pc
                    /\ ALL_CIPHERS' =
                         IF parsed.ret # None
                         THEN Append(ALL_CIPHERS,
                                     [id |-> Len(ALL_CIPHERS) + 1] @@ parsed.ret)
                         ELSE ALL_CIPHERS
    /\ UNCHANGED <<argv, fi, ei>>

\* the file is exhausted: the next iteration of "for fname in sys.argv[1:]"
NextFile ==
    /\ pc = "collect"
    /\ fi <= Len(argv)
    /\ li = Len(argv[fi])
    /\ fi' = fi + 1
    /\ li' = 0
    /\ UNCHANGED <<argv, ALL_CIPHERS, stdout, ei, pc>>

Sort ==
    /\ pc = "collect"
    /\ fi > Len(argv)
    /\ ALL_CIPHERS' = sort(ALL_CIPHERS)
    /\ pc' = "emit"
    /\ UNCHANGED <<argv, fi, li, stdout, ei>>

\* colon comparing names instead of objects
colon_by_name(c) ==
    IF c.name = ALL_CIPHERS[Len(ALL_CIPHERS)].name THEN <<>> ELSE <<" ","\"",":","\"">>

\* '' if c is ALL_CIPHERS[-1] else ' ":"' (objects are identified by id)
colon(c) ==
    IF c.id = ALL_CIPHERS[Len(ALL_CIPHERS)].id THEN <<>> ELSE <<" ","\"",":","\"">>

\* one iteration of "for c in ALL_CIPHERS"
EmitCipher ==
    /\ pc = "emit"
    /\ ei < Len(ALL_CIPHERS)
    /\ LET c == ALL_CIPHERS[ei + 1]
       IN  stdout' =
             IF InList(c.name, MANDATORY)
             THEN stdout \o << indent \o <<"/","*"," ","R","e","q","u","i","r","e","d"," ","*","/">>,
                               indent \o c.name \o colon(c) >>
             ELSE stdout \o << <<"#","i","f","d","e","f"," ">> \o c.name,
                               indent \o c.name \o colon(c),
                               <<"#","e","n","d","i","f">> >>
    /\ ei' = ei + 1
    /\ UNCHANGED <<argv, fi, li, ALL_CIPHERS, pc>>

EmitTerminator ==
    /\ pc = "emit"
    /\ ei = Len(ALL_CIPHERS)
    /\ stdout' = Append(stdout, indent \o <<";">>)
    /\ pc' = "done"
    /\ UNCHANGED <<argv, fi, li, ALL_CIPHERS, ei>>

(***************************************************************************)
(* A second set of inputs: one header of one line, its name drawn from a   *)
(* grammar of well-formed and malformed ciphersuite names.                 *)
(***************************************************************************)

NameBodies ==
    { c \o <<"_">> \o b \o m \o d :
        c \in { <<"A","E","S">>, <<"D","E","S">>, <<"R","C","4">>, <<"A","R","I","A">> },
        b \in { <<"2","5","6">>, <<"1","2","8">>, <<"1","9","2">> },
        m \in { <<>>, <<"_","C","B","C">>, <<"_","C","B","C","3">>, <<"_","G","C","M">>, <<"_","C","C","M">>, <<"_","C","C","M","_","8">> },
        d \in { <<>>, <<"_","S","H","A">>, <<"_","S","H","A","2","5","6">>, <<"_","S","H","A","3","8","4">>, <<"_","M","D","5">> } }
    \cup
    { <<"C","H","A","C","H","A","2","0","_","P","O","L","Y","1","3","0","5">>, <<"C","H","A","C","H","A","2","0","_","P","O","L","Y","1","3","0","5","_","S","H","A","2","5","6">>, <<"N","U","L","L","_","S","H","A">>,
      <<"S","E","E","D","_","S","H","A">>, <<"C","A","M","E","L","L","I","A","_","2","5","6","_","C","B","C","_","S","H","A">>, <<"D","E","S","_","4","0","_","C","B","C","_","S","H","A">>,
      <<"D","E","S","_","6","4","_","C","B","C","_","S","H","A">>, <<"A","E","S","_","5","1","2","_","S","H","A">>, <<"A","E","S","_","1","2","8","_","S","H","A","1">> }

Names ==
    { p \o <<"_","T","X","T","_">> \o k \o a \o w \o body :
        p \in { <<"T","L","S","1">>, <<"S","S","L","3">> },
        k \in { <<"E","D","H","_">>, <<"D","H","E","_">>, <<"E","C","D","H","E","_">>, <<>> },
        a \in { <<"R","S","A">>, <<"E","C","D","S","A">> },
        w \in { <<"_","W","I","T","H","_">>, <<"_">> },
        body \in NameBodies }

InitOne ==
    /\ argv \in { << << Define(n) >> >> : n \in Names }
    /\ fi = 1
    /\ li = 0
    /\ ALL_CIPHERS = <<>>
    /\ stdout = <<>>
    /\ ei = 0
    /\ pc = "collect"

Next == CollectLine \/ NextFile \/ Sort \/ EmitCipher \/ EmitTerminator

Spec == Init /\ [][Next]_vars

SpecOne == InitOne /\ [][Next]_vars


(***************************************************************************)
(* Reading the input and the output back                                   *)
(***************************************************************************)

RECURSIVE Flatten(_)
Flatten(ss) == IF ss = <<>> THEN <<>> ELSE Head(ss) \o Flatten(Tail(ss))

\* the names find_ciphers yields for a file: at most one per line
FileCandidates(file) ==
    Flatten([ j \in 1..Len(file) |-> find_ciphers(file[j]) ])

\* the candidate stream of a list of files, file after file
CandidatesOf(files) ==
    Flatten([ i \in 1..Len(files) |-> FileCandidates(files[i]) ])

Stream == CandidatesOf(argv)

Count(seq, x) == Cardinality({ i \in 1..Len(seq) : seq[i] = x })

EndsWith(s, suf) ==
    Len(suf) <= Len(s) /\ SubSeq(s, Len(s) - Len(suf) + 1, Len(s)) = suf

Name256 == <<"T","L","S","1","_","T","X","T","_","D","H","E","_","R","S","A","_","W","I","T","H","_","A","E","S","_","2","5","6","_","S","H","A">>
Name128 == <<"T","L","S","1","_","T","X","T","_","D","H","E","_","R","S","A","_","W","I","T","H","_","A","E","S","_","1","2","8","_","S","H","A">>
NameGcm == <<"T","L","S","1","_","T","X","T","_","E","C","D","H","E","_","R","S","A","_","W","I","T","H","_","A","E","S","_","1","2","8","_","G","C","M","_","S","H","A","2","5","6">>

Spaces7 == <<" "," "," "," "," "," "," ">>
Delimiter == <<" ","\"",":","\"">>
Terminator == <<" "," "," "," "," "," "," ",";">>
RequiredLine == <<" "," "," "," "," "," "," ","/","*"," ","R","e","q","u","i","r","e","d"," ","*","/">>
EndifLine == <<"#","e","n","d","i","f">>

IsDiagnostic(l) == StartsAt(l, 1, <<"/","*"," ","C","o","u","l","d","n","'","t"," ","p","a","r","s","e"," ">>)
NotDiagnostic(l) == ~IsDiagnostic(l)
NotTerminator(l) == l # Terminator

Diagnostics == SelectSeq(stdout, IsDiagnostic)
Listing == SelectSeq(stdout, NotDiagnostic)
ListingBody == SelectSeq(Listing, NotTerminator)

\* a name line without its indentation, split into the name and the delimiter
NameLine(l) ==
    LET text == SubSeq(l, Len(Spaces7) + 1, Len(l))
        delimited == EndsWith(text, Delimiter)
    IN  [ name |-> IF delimited
                   THEN SubSeq(text, 1, Len(text) - Len(Delimiter))
                   ELSE text,
          delimited |-> delimited ]

Malformed ==
    [ ok |-> FALSE, required |-> FALSE, guard |-> <<>>, name |-> <<>>,
      delimited |-> FALSE ]

\* the entries of a listing: "/* Required */" + name line, or #ifdef + name line + #endif
RECURSIVE Decode(_)
Decode(ls) ==
    IF ls = <<>> THEN <<>>
    ELSE IF ls[1] = RequiredLine /\ Len(ls) >= 2 /\ StartsAt(ls[2], 1, Spaces7)
    THEN << [ ok |-> TRUE, required |-> TRUE, guard |-> <<>> ] @@ NameLine(ls[2]) >>
         \o Decode(SubSeq(ls, 3, Len(ls)))
    ELSE IF /\ StartsAt(ls[1], 1, <<"#","i","f","d","e","f"," ">>) /\ Len(ls) >= 3
            /\ StartsAt(ls[2], 1, Spaces7) /\ ls[3] = EndifLine
    THEN << [ ok |-> TRUE, required |-> FALSE,
              guard |-> SubSeq(ls[1], Len(<<"#","i","f","d","e","f"," ">>) + 1, Len(ls[1])) ]
            @@ NameLine(ls[2]) >>
         \o Decode(SubSeq(ls, 4, Len(ls)))
    ELSE << Malformed >>

Entries == Decode(ListingBody)

EntryNames == [ i \in 1..Len(Entries) |-> Entries[i].name ]

\* the preference key of a record under a given field priority order
PrefKey(c, order) ==
    [ i \in 1..Len(order) |-> index(FIELD_VALS[order[i]], c[order[i]]) ]

SortedBy(list, order) ==
    \A i, j \in 1..Len(list) :
        i < j => ~TupleLess(PrefKey(list[j], order), PrefKey(list[i], order))

Ranked == pc \in {"emit", "done"}

IsDheAes(c) == c.fwsec = <<"D","H","E">> /\ c.cipher = <<"A","E","S">>
IsEcdheChacha(c) == c.fwsec = <<"E","C","D","H","E">> /\ c.cipher = <<"C","H","A","C","H","A","2","0">>

(***************************************************************************)
(* Claims                                                                  *)
(***************************************************************************)

\* C1 (as stated): the listing is ordered by the key taken in the order fwsec,
\* cipher, mode, digest, bitlength, so an ECDHE ChaCha20 suite precedes any DHE
\* AES suite.
C1_FwsecFirst ==
    Ranked =>
      /\ SortedBy(ALL_CIPHERS, << "fwsec", "cipher", "mode", "digest", "bitlength" >>)
      /\ \A i, j \in 1..Len(ALL_CIPHERS) :
            IsEcdheChacha(ALL_CIPHERS[i]) /\ IsDheAes(ALL_CIPHERS[j]) => i < j

\* C1 (amended): the listing is ordered by the key taken in the order cipher,
\* fwsec, mode, digest, bitlength: every AES suite precedes every ChaCha20 suite,
\* so a DHE AES suite is emitted before an ECDHE ChaCha20 suite; the entries are
\* emitted in that order.
C1_CipherFirst ==
    LET es == Entries IN
    Ranked =>
      /\ SortedBy(ALL_CIPHERS, << "cipher", "fwsec", "mode", "digest", "bitlength" >>)
      /\ \A i, j \in 1..Len(ALL_CIPHERS) :
            IsDheAes(ALL_CIPHERS[i]) /\ IsEcdheChacha(ALL_CIPHERS[j]) => i < j
      /\ \A i \in 1..Len(es) : es[i].name = ALL_CIPHERS[i].name

C1_Witness ==
    LET es == Entries IN
    /\ pc = "done"
    /\ \E i, j \in 1..Len(es) :
          /\ i < j
          /\ IsDheAes(ALL_CIPHERS[i]) /\ IsEcdheChacha(ALL_CIPHERS[j])
          /\ es[i].name = ALL_CIPHERS[i].name
          /\ es[j].name = ALL_CIPHERS[j].name

HasForwardSecrecy(n) ==
    In(<<"_","E","D","H","_">>, n) \/ In(<<"_","D","H","E","_">>, n) \/ In(<<"_","E","C","D","H","E","_">>, n)

HasDisallowed(n) ==
    \/ In(<<"_","D","E","S","_","4","0","_">>, n) \/ In(<<"M","D","5">>, n) \/ In(<<"_","R","C","4","_">>, n)
    \/ In(<<"_","D","E","S","_","6","4","_">>, n) \/ In(<<"_","S","E","E","D","_">>, n) \/ In(<<"_","C","A","M","E","L","L","I","A","_">>, n)
    \/ In(<<"_","N","U","L","L">>, n) \/ In(<<"_","C","C","M","_","8">>, n) \/ In(<<"_","D","E","S","_">>, n)

PolicyHolds(n) == HasForwardSecrecy(n) /\ In(<<"_","R","S","A","_">>, n) /\ ~HasDisallowed(n)

\* C2: usable_cipher accepts a name iff it has a forward-secrecy indicator, has
\* _RSA_ and has no disallowed substring; every name in the listing satisfies
\* the three conditions, so none contains _RC4_ and none lacks an ephemeral
\* indicator.
C2_PolicyFilter ==
    LET es == Entries
        st == Stream
    IN  /\ \A k \in 1..Len(st) : usable_cipher(st[k]) <=> PolicyHolds(st[k])
        /\ \A i \in 1..Len(ALL_CIPHERS) : PolicyHolds(ALL_CIPHERS[i].name)
        /\ \A i \in 1..Len(es) :
              /\ PolicyHolds(es[i].name)
              /\ ~In(<<"_","R","C","4","_">>, es[i].name)
              /\ HasForwardSecrecy(es[i].name)

C2_Witness ==
    LET st == Stream IN
    /\ pc = "done"
    /\ Entries = <<>>
    /\ \E k \in 1..Len(st) :
          /\ In(<<"_","R","C","4","_">>, st[k])
          /\ HasForwardSecrecy(st[k])
          /\ In(<<"_","R","S","A","_">>, st[k])
          /\ ~In(<<"M","D","5">>, st[k])

\* C3: each record visited by the emitter is written as "/* Required */" and
\* the bare name iff its name is one of the two mandatory names, and otherwise
\* between "#ifdef <name>" and "#endif"; an input of only the two mandatory
\* names gives two Required entries joined by the delimiter, no #ifdef, and the
\* terminator.
C3_GuardUnlessMandatory ==
    LET es == Entries IN
    /\ Len(es) = ei
    /\ \A i \in 1..Len(es) :
          /\ es[i].ok
          /\ es[i].name = ALL_CIPHERS[i].name
          /\ es[i].required <=> es[i].name \in {Name256, Name128}
          /\ ~es[i].required => es[i].guard = es[i].name
    /\ pc = "done" /\ Stream \in { <<Name256, Name128>>, <<Name128, Name256>> }
         => stdout = << RequiredLine, Spaces7 \o Name256 \o Delimiter,
                        RequiredLine, Spaces7 \o Name128, Terminator >>

C3_Witness ==
    LET es == Entries IN
    /\ pc = "done"
    /\ \E i, j \in 1..Len(es) :
          /\ es[i].required /\ es[i].name = Name128
          /\ ~es[j].required /\ es[j].guard = es[j].name

\* C4: the name line of every record but the last carries the delimiter and
\* the last one does not, also when names repeat; the terminator is printed
\* exactly once, after all records, and is the whole listing when there is no
\* record.
C4_DelimiterAndTerminator ==
    LET es == Entries IN
    /\ \A i \in 1..Len(es) :
          es[i].ok /\ (es[i].delimited <=> i < Len(ALL_CIPHERS))
    /\ pc # "done" => Count(stdout, Terminator) = 0
    /\ pc = "done" =>
          /\ Len(es) = Len(ALL_CIPHERS)
          /\ Count(stdout, Terminator) = 1
          /\ stdout[Len(stdout)] = Terminator
          /\ ALL_CIPHERS = <<>> => Listing = << Terminator >>

C4_Witness ==
    LET es == Entries IN
    /\ pc = "done"
    /\ Len(es) >= 3
    /\ es[Len(es)].name = es[Len(es) - 1].name
    /\ ~es[Len(es)].delimited
    /\ es[Len(es) - 1].delimited

\* the records of a candidate stream, in the order encountered
RECURSIVE CollectFrom(_, _)
CollectFrom(cands, acc) ==
    IF cands = <<>> THEN acc
    ELSE LET c == Head(cands)
             r == parse_cipher(c).ret
         IN  IF usable_cipher(c) /\ r.kind = "Ciphersuite"
             THEN CollectFrom(Tail(cands), Append(acc, [id |-> Len(acc) + 1] @@ r))
             ELSE CollectFrom(Tail(cands), acc)

KeysOf(list) == [ i \in 1..Len(list) |-> sort_key(list[i]) ]

\* the orders of n files that exchange two of them, and the order given; every
\* order of the files is reached from the order given by such exchanges
FileOrders(n) ==
    { [ i \in 1..n |-> IF i = x[1] THEN x[2] ELSE IF i = x[2] THEN x[1] ELSE i ] :
        x \in (1..n) \X (1..n) }

\* C5: the ranked sequence has non-decreasing keys, records with equal keys keep
\* the order in which they were encountered in the input, and exchanging two
\* input files leaves the sequence of keys unchanged (Init holds every sequence
\* of files, so the same follows for every permutation of the files).
C5_StableRanking ==
    LET keys == KeysOf(ALL_CIPHERS) IN
    /\ Ranked =>
          \A i, j \in 1..Len(keys) :
             i < j => /\ ~TupleLess(keys[j], keys[i])
                      /\ keys[i] = keys[j] => ALL_CIPHERS[i].id < ALL_CIPHERS[j].id
    /\ pc = "done" =>
          LET encountered == CollectFrom(Stream, <<>>)
              records == [ i \in 1..Len(argv) |->
                             CollectFrom(FileCandidates(argv[i]), <<>>) ]
          IN  /\ Len(encountered) = Len(ALL_CIPHERS)
              /\ \A i \in 1..Len(ALL_CIPHERS) :
                    /\ ALL_CIPHERS[i].id \in 1..Len(encountered)
                    /\ encountered[ALL_CIPHERS[i].id] = ALL_CIPHERS[i]
              /\ \A p \in FileOrders(Len(argv)) :
                    KeysOf(sort(Flatten([ i \in 1..Len(argv) |-> records[p[i]] ])))
                       = keys

C5_Witness ==
    /\ pc = "done"
    /\ \E i, j \in 1..Len(ALL_CIPHERS) :
          /\ i < j
          /\ sort_key(ALL_CIPHERS[i]) = sort_key(ALL_CIPHERS[j])
          /\ ALL_CIPHERS[i].name # ALL_CIPHERS[j].name
          /\ ALL_CIPHERS[i].id < ALL_CIPHERS[j].id
    /\ \E i \in 1..Len(ALL_CIPHERS) : ALL_CIPHERS[i].id # i

MatchesNoShape(c) ==
    /\ ~re_match(Shape1, TRUE, c).ok
    /\ ~re_match(Shape2, FALSE, c).ok
    /\ ~re_match(Shape3, FALSE, c).ok

Unparseable(c) == PolicyHolds(c) /\ MatchesNoShape(c)
Parseable(c) == PolicyHolds(c) /\ ~MatchesNoShape(c)

\* the script has a step to take: a line to read, a file to leave, the sort,
\* a record to emit or the terminator
Running ==
    \/ pc = "collect" /\ fi <= Len(argv) /\ li <= Len(argv[fi])
    \/ pc = "collect" /\ fi > Len(argv)
    \/ pc = "emit" /\ ei <= Len(ALL_CIPHERS)

DiagnosticFor(c) == <<"/","*"," ","C","o","u","l","d","n","'","t"," ","p","a","r","s","e"," ">> \o c \o <<" ","!"," ","*","/">>

\* C6: a name that passes the policy filter and matches none of the three
\* shapes gives exactly one diagnostic line naming it, no record and no
\* listing entry, and the run goes on: the other candidates are emitted and
\* the terminator closes the listing; a name the filter rejects gives no
\* diagnostic.
C6_DiagnoseAndContinue ==
    /\ pc # "raised"
    /\ pc # "done" => Running
    /\ \A i \in 1..Len(ALL_CIPHERS) : ~MatchesNoShape(ALL_CIPHERS[i].name)
    /\ pc = "done" =>
          LET st == Stream
              bad == SelectSeq(st, Unparseable)
              good == SelectSeq(st, Parseable)
              names == EntryNames
          IN  /\ Diagnostics = [ k \in 1..Len(bad) |-> DiagnosticFor(bad[k]) ]
              /\ Len(names) = Len(good)
              /\ \A k \in 1..Len(st) :
                    Count(names, st[k]) = Count(good, st[k])
              /\ stdout[Len(stdout)] = Terminator

C6_Witness ==
    LET st == Stream IN
    /\ pc = "done"
    /\ \E i, j, k \in 1..Len(st) :
          /\ i < j /\ j < k
          /\ Parseable(st[i]) /\ Unparseable(st[j]) /\ Parseable(st[k])
          /\ Count(EntryNames, st[i]) >= 1 /\ Count(EntryNames, st[k]) >= 1
          /\ Count(stdout, DiagnosticFor(st[j])) = 1
    /\ \E k \in 1..Len(st) : ~PolicyHolds(st[k])

NotApplicable == <<"n","/","a">>

DigestRule(r) == r.digest = NotApplicable <=> r.mode \in { <<"C","C","M">>, <<"P","O","L","Y","1","3","0","5">> }

\* C7: a record's digest is n/a iff its mode is CCM or POLY1305; a name of the
\* first shape keeps the digest of its suffix, also with mode GCM;
\* TLS1_TXT_ECDHE_RSA_WITH_AES_128_GCM_SHA256 gives ECDHE, AES, 128, GCM,
\* SHA256 and exactly one guarded block.
C7_DigestSentinel ==
    LET st == Stream IN
    /\ \A i \in 1..Len(ALL_CIPHERS) : DigestRule(ALL_CIPHERS[i])
    /\ \A k \in 1..Len(st) :
          LET r == parse_cipher(st[k]).ret IN
          r.kind = "Ciphersuite" =>
             /\ DigestRule(r)
             /\ re_match(Shape1, TRUE, st[k]).ok =>
                   /\ r.digest \in { <<"S","H","A">>, <<"S","H","A","2","5","6">>, <<"S","H","A","3","8","4">> }
                   /\ EndsWith(st[k], <<"_">> \o r.digest)
    /\ st = << NameGcm >> =>
          /\ parse_cipher(NameGcm).ret =
                [ kind |-> "Ciphersuite", name |-> NameGcm, fwsec |-> <<"E","C","D","H","E">>,
                  cipher |-> <<"A","E","S">>, bitlength |-> <<"1","2","8">>, mode |-> <<"G","C","M">>,
                  digest |-> <<"S","H","A","2","5","6">> ]
          /\ pc = "done" =>
                stdout = << <<"#","i","f","d","e","f"," ">> \o NameGcm, Spaces7 \o NameGcm,
                            EndifLine, Terminator >>

C7_Witness ==
    /\ pc = "done"
    /\ Stream = << NameGcm >>
    /\ Len(ALL_CIPHERS) = 1
    /\ ALL_CIPHERS[1].mode = <<"G","C","M">>
    /\ ALL_CIPHERS[1].digest = <<"S","H","A","2","5","6">>
    /\ Len(stdout) = 4

\* s with the first occurrence of old replaced by new
ReplaceFirst(s, old, new) ==
    IF ~In(old, s) THEN s
    ELSE LET i == CHOOSE j \in 1..Len(s) :
                     StartsAt(s, j, old) /\ \A k \in 1..(j - 1) : ~StartsAt(s, k, old)
         IN  SubSeq(s, 1, i - 1) \o new \o SubSeq(s, i + Len(old), Len(s))

\* the name with its key-exchange spelling changed between EDH and DHE
KxRespellings(n) ==
    { ReplaceFirst(n, <<"_","E","D","H","_">>, <<"_","D","H","E","_">>), ReplaceFirst(n, <<"_","D","H","E","_">>, <<"_","E","D","H","_">>) }
    \ {n}

CbcSuffixes == { <<>>, <<"_","C","B","C">>, <<"_","C","B","C","3">> }
DigestSuffixes == { <<"_","S","H","A">>, <<"_","S","H","A","2","5","6">>, <<"_","S","H","A","3","8","4">> }
BitSuffixes == { <<"_","2","5","6">>, <<"_","1","2","8">>, <<"_","1","9","2">> }

\* the name with its mode suffix changed among empty, _CBC and _CBC3
ModeRespellings(n) ==
    { SubSeq(n, 1, Len(n) - Len(t[1]) - Len(t[3])) \o t[2] \o t[3] :
        t \in { u \in CbcSuffixes \X CbcSuffixes \X DigestSuffixes :
                  /\ u[1] # u[2]
                  /\ EndsWith(n, u[1] \o u[3])
                  /\ \E b \in BitSuffixes :
                        EndsWith(SubSeq(n, 1, Len(n) - Len(u[1]) - Len(u[3])), b) } }

SameFields(q, r) ==
    /\ q.fwsec = r.fwsec /\ q.cipher = r.cipher /\ q.bitlength = r.bitlength
    /\ q.mode = r.mode /\ q.digest = r.digest

\* C8: names that differ only in the spelling EDH/DHE, or only in the mode
\* suffix being empty, _CBC or _CBC3, decompose to records with the same five
\* field values (fwsec DHE, mode CBC) and the same sort key; a _GCM suffix
\* gives mode GCM.
C8_Normalization ==
    LET st == Stream IN
    \A k \in 1..Len(st) :
       LET n == st[k]
           r == parse_cipher(n).ret
           m1 == re_match(Shape1, TRUE, n)
       IN  r.kind = "Ciphersuite" =>
             /\ \A v \in KxRespellings(n) \cup ModeRespellings(n) :
                   LET q == parse_cipher(v).ret IN
                   /\ q.kind = "Ciphersuite"
                   /\ SameFields(q, r)
                   /\ sort_key(q) = sort_key(r)
             /\ KxRespellings(n) # {} => r.fwsec = <<"D","H","E">>
             /\ ModeRespellings(n) # {} => r.mode = <<"C","B","C">>
             /\ m1.ok /\ m1.groups[4] = <<"_","G","C","M">> => r.mode = <<"G","C","M">>

C8_Witness ==
    /\ pc = "done"
    /\ Len(ALL_CIPHERS) = 1
    /\ In(<<"_","E","D","H","_">>, ALL_CIPHERS[1].name)
    /\ EndsWith(ALL_CIPHERS[1].name, <<"_","C","B","C","3","_","S","H","A">>)
    /\ ALL_CIPHERS[1].fwsec = <<"D","H","E">>
    /\ ALL_CIPHERS[1].mode = <<"C","B","C">>
    /\ Cardinality(ModeRespellings(ALL_CIPHERS[1].name)) = 2
    /\ Cardinality(KxRespellings(ALL_CIPHERS[1].name)) = 1

InDomain(r) ==
    /\ r.cipher \in { <<"A","E","S">>, <<"C","H","A","C","H","A","2","0">> }
    /\ r.fwsec \in { <<"E","C","D","H","E">>, <<"D","H","E">> }
    /\ r.mode \in { <<"P","O","L","Y","1","3","0","5">>, <<"G","C","M">>, <<"C","C","M">>, <<"C","B","C">> }
    /\ r.digest \in { <<"n","/","a">>, <<"S","H","A","3","8","4">>, <<"S","H","A","2","5","6">>, <<"S","H","A">> }
    /\ r.bitlength \in { <<"2","5","6">>, <<"1","2","8">>, <<"1","9","2">> }

\* the name has one of the first two shapes with DES as its cipher
CapturesDes(n) ==
    LET m1 == re_match(Shape1, TRUE, n)
        m2 == re_match(Shape2, FALSE, n)
    IN  IF m1.ok THEN m1.groups[2] = <<"D","E","S">>
        ELSE m2.ok /\ m2.groups[2] = <<"D","E","S">>

\* C9: in the pipeline the assertion of Ciphersuite.__init__ never fails: every
\* usable name that has one of the shapes gives in-domain fields, the only
\* out-of-domain capture is the cipher DES, whose name contains _DES_ and is
\* rejected by the filter; parse_cipher called on such a name raises.
C9_AssertionUnreachable ==
    LET st == Stream IN
    /\ pc # "raised"
    /\ \A i \in 1..Len(ALL_CIPHERS) :
          /\ InDomain(ALL_CIPHERS[i])
          /\ \A f \in 1..Len(FIELDS) : sort_key(ALL_CIPHERS[i])[f] >= 0
    /\ \A k \in 1..Len(st) :
          LET r == parse_cipher(st[k]).ret IN
          /\ usable_cipher(st[k]) => r # AssertionError
          /\ r.kind = "Ciphersuite" => InDomain(r)
          /\ r = AssertionError <=> CapturesDes(st[k])
          /\ CapturesDes(st[k]) => In(<<"_","D","E","S","_">>, st[k]) /\ ~usable_cipher(st[k])

C9_Witness ==
    LET st == Stream IN
    /\ pc = "done"
    /\ ALL_CIPHERS = <<>>
    /\ Len(st) = 1
    /\ CapturesDes(st[1])
    /\ parse_cipher(st[1]).ret = AssertionError
    /\ HasForwardSecrecy(st[1]) /\ In(<<"_","R","S","A","_">>, st[1])

Occurrences == pc = "done" =>
    LET st == Stream
        good == SelectSeq(st, Parseable)
        names == EntryNames
    IN  /\ Len(names) = Len(good)
        /\ Len(names) = Len(ALL_CIPHERS)
        /\ \A k \in 1..Len(st) : Count(names, st[k]) = Count(good, st[k])

\* C10 (as stated): every accepted, parsed occurrence gives one record and one
\* entry, so a name on k accepted lines appears k times, as k adjacent entries.
C10_AdjacentDuplicates ==
    /\ Occurrences
    /\ pc = "done" =>
          LET names == EntryNames IN
          \A i, j \in 1..Len(names) :
             i < j /\ names[i] = names[j] =>
                \A k \in i..j : names[k] = names[i]

\* C10 (amended): every accepted, parsed occurrence gives one record and one
\* entry, so a name on k accepted lines appears k times; the k entries lie in
\* one run of entries with the same sort key (they are adjacent unless another
\* name with that key was encountered between them).
C10_NoDeduplication ==
    /\ Occurrences
    /\ pc = "done" =>
          LET names == EntryNames IN
          \A i, j \in 1..Len(names) :
             i < j /\ names[i] = names[j] =>
                \A k \in i..j : sort_key(ALL_CIPHERS[k]) = sort_key(ALL_CIPHERS[i])

C10_Witness ==
    LET names == EntryNames IN
    /\ pc = "done"
    /\ \E i, j \in 1..Len(names) :
          /\ i + 1 < j
          /\ names[i] = names[j]
          /\ names[i + 1] # names[i]
          /\ Count(Stream, names[i]) = Count(names, names[i])

====
